---- MODULE Spec2Model ----
(***************************************************************************)
(* Model of the rule-parsing and address-matching engine of                *)
(* electoral_polygons: normalize_street, housenumber_info,                 *)
(* parse_rule_cell, parse_sv, match_sv_addresses and dedupe_by_address.    *)
(*                                                                         *)
(* Text is a sequence of characters.  An ASCII character is the one-letter *)
(* string; a character outside ASCII is a named token:                     *)
(*   "LF" line feed, "E_ACUTE" U+00C9, "e_acute" U+00E9,                   *)
(*   "COMB_ACUTE" U+0301, "FW_LPAREN" U+FF08, "FW_RPAREN" U+FF09,          *)
(*   "DS_C" U+2102, "ENDASH" U+2013, "EMDASH" U+2014, "a_circ" U+00E2,     *)
(*   "EURO" U+20AC, "LDQUO" U+201C.                                        *)
(***************************************************************************)
EXTENDS Integers, Sequences, FiniteSets, TLC

VARIABLES pc, name, nameNorm, hn, hnInfo, cell, specs, table, query, block,
          inventory, matchedPre, out

vars == <<pc, name, nameNorm, hn, hnInfo, cell, specs, table, query, block,
          inventory, matchedPre, out>>

\* Python's None (also a missing spreadsheet cell, NaN): a one-token text that
\* no string equals.
None == <<"None">>

(***************************************************************************)
(* Characters                                                              *)
(***************************************************************************)
Lowers == <<"a","b","c","d","e","f","g","h","i","j","k","l","m",
            "n","o","p","q","r","s","t","u","v","w","x","y","z">>
Uppers == <<"A","B","C","D","E","F","G","H","I","J","K","L","M",
            "N","O","P","Q","R","S","T","U","V","W","X","Y","Z">>
Digits == <<"0","1","2","3","4","5","6","7","8","9">>

IsIn(c, chars) == \E i \in DOMAIN chars : chars[i] = c
IndexIn(c, chars) == CHOOSE i \in DOMAIN chars : chars[i] = c

\* regex \d and [0-9]
IsDigit(c) == IsIn(c, Digits)
DigitVal(c) == IndexIn(c, Digits) - 1
\* regex [A-Za-z]
IsAlpha(c) == IsIn(c, Lowers) \/ IsIn(c, Uppers)
\* regex \s and the characters str.strip() removes
IsSpace(c) == c \in {" ", "LF"}

\* str.lower(), one character
LowerChar(c) ==
  IF IsIn(c, Uppers) THEN Lowers[IndexIn(c, Uppers)]
  ELSE IF c = "E_ACUTE" THEN "e_acute"
  ELSE c
\* str.upper(), one character
UpperChar(c) ==
  IF IsIn(c, Lowers) THEN Uppers[IndexIn(c, Lowers)]
  ELSE IF c = "e_acute" THEN "E_ACUTE"
  ELSE c

ToLower(s) == [i \in DOMAIN s |-> LowerChar(s[i])]
ToUpper(s) == [i \in DOMAIN s |-> UpperChar(s[i])]

\* unicodedata.normalize("NFKD", c) of one character
Nfkd(c) ==
  CASE c = "e_acute"   -> <<"e", "COMB_ACUTE">>
    [] c = "E_ACUTE"   -> <<"E", "COMB_ACUTE">>
    [] c = "FW_LPAREN" -> <<"(">>
    [] c = "FW_RPAREN" -> <<")">>
    [] c = "DS_C"      -> <<"C">>
    [] OTHER           -> <<c>>
\* unicodedata.combining(c) # 0
IsCombining(c) == c = "COMB_ACUTE"

(***************************************************************************)
(* String helpers                                                          *)
(***************************************************************************)
SubStr(s, i, j) == IF j < i THEN <<>> ELSE SubSeq(s, i, j)

\* the least and the greatest position of a set, dflt when the set is empty
FirstOf(S, dflt) == IF S = {} THEN dflt ELSE CHOOSE k \in S : \A m \in S : k <= m
LastOf(S, dflt) == IF S = {} THEN dflt ELSE CHOOSE k \in S : \A m \in S : k >= m

\* first index >= i that holds no whitespace (Len(s)+1 when there is none)
SkipSpaces(s, i) == FirstOf({k \in i..Len(s) : ~IsSpace(s[k])}, Len(s) + 1)

\* first index >= i that holds no digit (Len(s)+1 when there is none)
SkipDigits(s, i) == FirstOf({k \in i..Len(s) : ~IsDigit(s[k])}, Len(s) + 1)

\* str.strip()
Strip(s) ==
  SubStr(s, FirstOf({k \in 1..Len(s) : ~IsSpace(s[k])}, 1),
            LastOf({k \in 1..Len(s) : ~IsSpace(s[k])}, 0))

\* s[i:].startswith(w)
StartsAt(s, i, w) ==
  /\ i + Len(w) - 1 <= Len(s)
  /\ \A k \in 1..Len(w) : s[i + k - 1] = w[k]
\* w in s
Contains(s, w) == \E i \in 1..(Len(s) + 1) : StartsAt(s, i, w)

RECURSIVE Flatten(_)
Flatten(ss) == IF ss = <<>> THEN <<>> ELSE Head(ss) \o Flatten(Tail(ss))

\* int() of a run of decimal digits
RECURSIVE IntOf(_)
IntOf(ds) ==
  IF ds = <<>> THEN 0
  ELSE 10 * IntOf(SubSeq(ds, 1, Len(ds) - 1)) + DigitVal(ds[Len(ds)])

\* int(x) succeeds: the token regexes only ever produce digits, letters, blanks
IntOk(x) == x # <<>> /\ \A i \in DOMAIN x : IsDigit(x[i])

\* str(n) of a non-negative integer
RECURSIVE Dec(_)
Dec(n) == IF n < 10 THEN <<Digits[n + 1]>>
          ELSE Dec(n \div 10) \o <<Digits[(n % 10) + 1]>>

\* every text over an alphabet, up to a length
AllTexts(alpha, n) == UNION {[1..k -> alpha] : k \in 0..n}

(***************************************************************************)
(* normalize_street                                                        *)
(***************************************************************************)
\* `\(.*?\)` at an opening parenthesis at k: index of the closing one, 0 when
\* there is none before the next line feed ('.' does not match a line feed)
ParenCloseAfter(s, k) ==
  FirstOf({j \in (k + 1)..Len(s) :
             /\ s[j] = ")"
             /\ \A m \in (k + 1)..(j - 1) : s[m] # "LF"}, 0)

\* `\(.*?\)` tried at position k
ParenAt(s, k) ==
  IF k <= Len(s) /\ s[k] = "(" THEN ParenCloseAfter(s, k) ELSE 0

\* re `\s*\(.*?\)` tried at position i: index of the closing parenthesis of
\* the match, 0 when there is no match at i
ParenMatchEnd(s, i) == ParenAt(s, SkipSpaces(s, i))

RECURSIVE RemoveParens(_, _)
\* one step of the scan: j is where the match at i ends (0: no match at i)
RemoveParensStep(s, i, j) ==
  IF j > 0 THEN RemoveParens(s, j + 1)
  ELSE <<s[i]>> \o RemoveParens(s, i + 1)

\* re.sub(r"\s*\(.*?\)", "", name), scanning from position i
RemoveParens(s, i) ==
  IF i > Len(s) THEN <<>> ELSE RemoveParensStep(s, i, ParenMatchEnd(s, i))

\* unicodedata.normalize("NFKD", name)
Decompose(s) == Flatten([i \in DOMAIN s |-> Nfkd(s[i])])

\* mutant: the combining marks are kept
StripCombining_Kept(s) == s

\* "".join(c for c in name if not unicodedata.combining(c))
StripCombining(s) == SelectSeq(s, LAMBDA c : ~IsCombining(c))

\* re.sub(r"\s+", " ", name)
RECURSIVE CollapseSpaces(_, _)
CollapseSpaces(s, i) ==
  IF i > Len(s) THEN <<>>
  ELSE IF IsSpace(s[i]) THEN <<" ">> \o CollapseSpaces(s, SkipSpaces(s, i))
  ELSE <<s[i]>> \o CollapseSpaces(s, i + 1)

normalize_street(x) ==
  IF x = None THEN <<>>
  ELSE Strip(CollapseSpaces(
         StripCombining(Decompose(ToLower(RemoveParens(x, 1)))), 1))

(***************************************************************************)
(* Inputs of the normalizer                                                *)
(***************************************************************************)
MaxNameLen == 4
NameAlphabet == {"a", "B", " ", "LF", "(", ")", "E_ACUTE", "FW_LPAREN", "DS_C", "."}
StrEmileAccent == <<"S","t","r","."," ","E_ACUTE","m","i","l","e">>
StrEmilePlain == <<"s","t","r"," ","e","m","i","l","e">>
StrEmileDotted == <<"s","t","r","."," ","e","m","i","l","e">>
NameSamples == {StrEmileAccent, StrEmilePlain, StrEmileDotted}
NameInputs == AllTexts(NameAlphabet, MaxNameLen) \cup NameSamples \cup {None}

Idle == <<>>

InitNormalize ==
  /\ pc = "name"
  /\ name \in NameInputs
  /\ nameNorm = Idle
  /\ hn = Idle /\ hnInfo = Idle /\ cell = Idle /\ specs = Idle
  /\ table = Idle /\ query = Idle /\ block = Idle
  /\ inventory = Idle /\ matchedPre = Idle /\ out = Idle

\* one call of normalize_street
NormalizeStreet ==
  /\ pc = "name"
  /\ nameNorm' = normalize_street(name)
  /\ pc' = "normalized"
  /\ UNCHANGED <<name, hn, hnInfo, cell, specs, table, query, block,
                 inventory, matchedPre, out>>

\* the result of a call handed to the next call (a normalized street is
\* normalized again by every consumer that compares street names)
NormalizeAgain ==
  /\ pc = "normalized"
  /\ name' = nameNorm
  /\ nameNorm' = normalize_street(nameNorm)
  /\ pc' = "renormalized"
  /\ UNCHANGED <<hn, hnInfo, cell, specs, table, query, block,
                 inventory, matchedPre, out>>

NextNormalize == NormalizeStreet \/ NormalizeAgain
SpecNormalize == InitNormalize /\ [][NextNormalize]_vars

(***************************************************************************)
(* housenumber_info                                                        *)
(***************************************************************************)
\* the character class of _HN_RANGE_RE as the source file spells it:
\* '-', U+00E2, U+20AC, U+201C
HnDashChars == {"-", "a_circ", "EURO", "LDQUO"}

\* the tail of _HN_RANGE_RE from the second digit group at b1..b2-1
HnRangeTail(s, a1, a2, b1, b2) ==
  IF b2 > b1 /\ SkipSpaces(s, b2) = Len(s) + 1
  THEN <<a1, a2 - 1, b1, b2 - 1>> ELSE <<>>

\* _HN_RANGE_RE from the separator expected at d
HnRangeSep(s, a1, a2, d, b1) ==
  IF a2 > a1 /\ d <= Len(s) /\ s[d] \in HnDashChars
  THEN HnRangeTail(s, a1, a2, b1, SkipDigits(s, b1)) ELSE <<>>

\* _HN_RANGE_RE from the first digit group at a1..a2-1
HnRangeFirst(s, a1, a2, d) == HnRangeSep(s, a1, a2, d, SkipSpaces(s, d + 1))

\* _HN_RANGE_RE from the first digit at a1
HnRangeFrom(s, a1, a2) == HnRangeFirst(s, a1, a2, SkipSpaces(s, a2))

\* _HN_RANGE_RE.match(s): <<start1, end1, start2, end2>> of the two digit
\* groups, <<>> when the expression does not match
HnRangeMatchAt(s, a1) == HnRangeFrom(s, a1, SkipDigits(s, a1))
HnRangeMatch(s) == HnRangeMatchAt(s, SkipSpaces(s, 1))

\* mutant: the endpoints are taken as written
RangeBounds_AsWritten(a, b) == <<a, b>>

\* lo, hi = (a, b) if a <= b else (b, a)
RangeBounds(a, b) == IF a <= b THEN <<a, b>> ELSE <<b, a>>

\* set(range(lo, hi + 1, 2))
SteppedRange(lo, hi) == {n \in lo..hi : (n - lo) % 2 = 0}

\* the three cases of the range branch
HnRangeCases(lo, hi) ==
  IF lo % 2 = 0 /\ hi % 2 = 0
    THEN [covered |-> SteppedRange(lo, hi), parity |-> "even", isRange |-> TRUE]
  ELSE IF lo % 2 = 1 /\ hi % 2 = 1
    THEN [covered |-> SteppedRange(lo, hi), parity |-> "odd", isRange |-> TRUE]
  ELSE [covered |-> lo..hi, parity |-> "none", isRange |-> TRUE]

HnRangeOf(lh) == HnRangeCases(lh[1], lh[2])

\* the range branch of housenumber_info
HnRangeInfo(a, b) == HnRangeOf(RangeBounds(a, b))

\* mutant: the first run of digits anywhere in the text (re.search)
LeadingDigits_Anywhere(s) ==
  SubStr(s, FirstOf({k \in 1..Len(s) : IsDigit(s[k])}, 1),
         SkipDigits(s, FirstOf({k \in 1..Len(s) : IsDigit(s[k])}, 1)) - 1)

\* re.match(r"(\d+)", s): the run of digits the text begins with (<<>>: no match)
LeadingDigits(s) == SubStr(s, 1, SkipDigits(s, 1) - 1)

NoHnInfo == [covered |-> {}, parity |-> "none", isRange |-> FALSE]

SingleNumber(n) == [covered |-> {n}, parity |-> "none", isRange |-> FALSE]

\* the branches of housenumber_info on the stripped text s
HnBranches(s, m, lead) ==
  IF s # <<>> /\ \A i \in DOMAIN s : IsDigit(s[i]) THEN SingleNumber(IntOf(s))
  ELSE IF m # <<>>
    THEN HnRangeInfo(IntOf(SubSeq(s, m[1], m[2])), IntOf(SubSeq(s, m[3], m[4])))
  ELSE IF lead # <<>> THEN SingleNumber(IntOf(lead))
  ELSE NoHnInfo

HnOfText(s) == HnBranches(s, HnRangeMatch(s), LeadingDigits(s))

housenumber_info(x) == IF x = None THEN NoHnInfo ELSE HnOfText(Strip(x))

(***************************************************************************)
(* Inputs of the house-number interpreter                                  *)
(***************************************************************************)
MaxHnLen == 4
MaxHnNum == 11
HnAlphabet == {"1", "4", "0", "A", " ", "-", "/", "ENDASH"}
HnNumbers == 0..MaxHnNum \cup {63, 64, 72, 75, 79}
HnSeparators == {"-", "ENDASH", "EMDASH", "a_circ", "EURO", "LDQUO", "/"}
HnPaddings == {<<>>, <<" ">>}
RangeText(a, pad, sep, b) == Dec(a) \o pad \o <<sep>> \o pad \o Dec(b)
HnRangeTexts ==
  {RangeText(a, pad, sep, b) :
     a \in HnNumbers, pad \in HnPaddings, sep \in HnSeparators, b \in HnNumbers}
HnSamples == {<<"1","4","A">>, <<"1","0","9","/","1">>, <<"1","0","9","A">>}
HnInputs == AllTexts(HnAlphabet, MaxHnLen) \cup HnRangeTexts \cup HnSamples \cup {None}

InitHouseNumber ==
  /\ pc = "hn"
  /\ hn \in HnInputs
  /\ hnInfo = Idle
  /\ name = Idle /\ nameNorm = Idle /\ cell = Idle /\ specs = Idle
  /\ table = Idle /\ query = Idle /\ block = Idle
  /\ inventory = Idle /\ matchedPre = Idle /\ out = Idle

\* one call of housenumber_info
HouseNumberInfo ==
  /\ pc = "hn"
  /\ hnInfo' = housenumber_info(hn)
  /\ pc' = "interpreted"
  /\ UNCHANGED <<name, nameNorm, hn, cell, specs, table, query, block,
                 inventory, matchedPre, out>>

NextHouseNumber == HouseNumberInfo
SpecHouseNumber == InitHouseNumber /\ [][NextHouseNumber]_vars

(***************************************************************************)
(* parse_rule_cell                                                         *)
(***************************************************************************)
Txt_nr == <<"n","r",".">>
Txt_integral == <<"i","n","t","e","g","r","a","l">>
Txt_numere_impare == <<"n","u","m","e","r","e"," ","i","m","p","a","r","e">>
Txt_numere_pare == <<"n","u","m","e","r","e"," ","p","a","r","e">>
Txt_BIS == <<"B","I","S">>

RECURSIVE SplitHash(_, _)
\* one piece of the split: h is where the next separator is (Len(t)+1: none)
SplitAt(t, i, h) ==
  IF h > Len(t) THEN <<SubStr(t, i, Len(t))>>
  ELSE <<SubStr(t, i, h - 1)>> \o SplitHash(t, h + 1)

\* t.split("#"), from position i: the pieces between the separators
SplitHash(t, i) == SplitAt(t, i, FirstOf({k \in i..Len(t) : t[k] = "#"}, Len(t) + 1))

StripAll(pieces) == [i \in DOMAIN pieces |-> Strip(pieces[i])]

\* parts = [p.strip() for p in t.split("#") if p.strip()]
CellParts(t) == SelectSeq(StripAll(SplitHash(t, 1)), LAMBDA q : q # <<>>)

\* `-\s*$` at position d
DashThenEnd(low, d) ==
  d <= Len(low) /\ low[d] = "-" /\ SkipSpaces(low, d + 1) = Len(low) + 1

\* re.search(r"nr\.\s*-\s*$", low)
EndsWithPlaceholder(low) ==
  \E i \in 1..Len(low) :
    StartsAt(low, i, Txt_nr) /\ DashThenEnd(low, SkipSpaces(low, i + 3))

\* the two tests that make parse_rule_cell ignore a segment
IsPlaceholder(low) ==
  \/ /\ Contains(low, Txt_nr)
     /\ Contains(low, <<"-">>)
     /\ EndsWithPlaceholder(low)
  \/ low \in {<<"n","r","."," ","-">>, <<"n","r",".","-">>}

\* [A-Za-z] at position k: k, or 0 when there is no letter
LetterAt(s, k) == IF k <= Len(s) /\ IsAlpha(s[k]) THEN k ELSE 0
\* `(?:\s*[A-Za-z])?` tried after position e: where the letter is, 0 if none
LetterEnd(s, e) == LetterAt(s, SkipSpaces(s, e + 1))

\* BIS (IGNORECASE) at position k: where it ends, 0 when it is not there
BisAt(s, k) == IF StartsAt(ToUpper(s), k, Txt_BIS) THEN k + 2 ELSE 0
\* `(?:\s*BIS)?` tried after position e: where BIS ends, 0 if none
BisEnd(s, e) == BisAt(s, SkipSpaces(s, e + 1))
BisAfterLetter(s, l) == IF l > 0 THEN BisEnd(s, l) ELSE 0

\* the ends the regex engine tries for a number token, greedy first: letter
\* and BIS, letter alone, BIS alone, the digits alone
TokenEndsInOrder(lb, l, b, d) ==
  (IF lb > 0 THEN <<lb>> ELSE <<>>) \o (IF l > 0 THEN <<l>> ELSE <<>>)
    \o (IF b > 0 THEN <<b>> ELSE <<>>) \o <<d>>
TokenEndsLetter(s, d, l) == TokenEndsInOrder(BisAfterLetter(s, l), l, BisEnd(s, d), d)
TokenEndsDigits(s, d) == TokenEndsLetter(s, d, LetterEnd(s, d))

\* `[0-9]+(?:\s*[A-Za-z])?(?:\s*BIS)?` at a digit at position i: the ends the
\* regex engine tries, in its order of preference
NumTokenEnds(s, i) == TokenEndsDigits(s, SkipDigits(s, i) - 1)

\* [0-9] at position k: k, or 0 when there is no digit
DigitAt(s, k) == IF k <= Len(s) /\ IsDigit(s[k]) THEN k ELSE 0

\* `nr\.\s*` (IGNORECASE) at position i followed by a digit: where the digit
\* is, 0 when there is no match
MarkerDigitAt(s, i) ==
  IF StartsAt(ToLower(s), i, Txt_nr) THEN DigitAt(s, SkipSpaces(s, i + 3)) ELSE 0

SingleFrom(s, k) == IF k = 0 THEN <<>> ELSE <<k, Head(NumTokenEnds(s, k))>>
\* _SINGLE_RE at position i: <<start, end>> of the group, <<>> when no match
SingleMatchAt(s, i) == SingleFrom(s, MarkerDigitAt(s, i))

DashDigitAt(s, d) ==
  IF d <= Len(s) /\ s[d] = "-" THEN DigitAt(s, SkipSpaces(s, d + 1)) ELSE 0
\* `\s*-\s*[0-9]` after position e: where the digit is, 0 when no match
DashDigitAfter(s, e) == DashDigitAt(s, SkipSpaces(s, e + 1))

\* the groups of _RANGE_RE once the first one is known to end at e1
RangeSecond(s, k, e1, k2) == <<k, e1, k2, Head(NumTokenEnds(s, k2))>>
RangeGroups(s, k, e1) == RangeSecond(s, k, e1, DashDigitAfter(s, e1))
\* the first end of the first group after which the dash and a digit follow
RangePick(s, k, ends, good) ==
  IF good = {} THEN <<>> ELSE RangeGroups(s, k, ends[FirstOf(good, 0)])
RangeWith(s, k, ends) ==
  RangePick(s, k, ends, {j \in DOMAIN ends : DashDigitAfter(s, ends[j]) > 0})
RangeFrom(s, k) == IF k = 0 THEN <<>> ELSE RangeWith(s, k, NumTokenEnds(s, k))
\* _RANGE_RE at position i: <<start1, end1, start2, end2>> of its two groups,
\* <<>> when no match
RangeMatchAt(s, i) == RangeFrom(s, MarkerDigitAt(s, i))

RECURSIVE SingleFindAll(_, _)
SingleStep(s, i, m) ==
  IF m = <<>> THEN SingleFindAll(s, i + 1)
  ELSE <<Strip(SubSeq(s, m[1], m[2]))>> \o SingleFindAll(s, m[2] + 1)
\* _SINGLE_RE.findall(p), stripped, scanning from position i
SingleFindAll(s, i) ==
  IF i > Len(s) THEN <<>> ELSE SingleStep(s, i, SingleMatchAt(s, i))

RECURSIVE RangeFindAll(_, _)
RangeStep(s, i, m) ==
  IF m = <<>> THEN RangeFindAll(s, i + 1)
  ELSE <<<<Strip(SubSeq(s, m[1], m[2])), Strip(SubSeq(s, m[3], m[4]))>>>>
         \o RangeFindAll(s, m[4] + 1)
\* _RANGE_RE.findall(p), each group stripped, scanning from position i
RangeFindAll(s, i) ==
  IF i > Len(s) THEN <<>> ELSE RangeStep(s, i, RangeMatchAt(s, i))

\* _norm_num_token
norm_num_token(s) == CollapseSpaces(ToUpper(Strip(s)), 1)

\* the normalized endpoints of the ranges
RangeEndpoints(ranges) ==
  UNION {{norm_num_token(ranges[i][1]), norm_num_token(ranges[i][2])} :
           i \in DOMAIN ranges}
DropEndpoints(singles, endpoints) ==
  SelectSeq(singles, LAMBDA x : norm_num_token(x) \notin endpoints)

\* mutant: nothing is removed
subtract_range_endpoints_Keep(singles, ranges) == singles

\* _subtract_range_endpoints
subtract_range_endpoints(singles, ranges) ==
  IF ranges = <<>> THEN singles ELSE DropEndpoints(singles, RangeEndpoints(ranges))

\* the parity keyword of a lower-cased segment
SegmentParity(low) ==
  IF Contains(low, Txt_numere_impare) THEN "odd"
  ELSE IF Contains(low, Txt_numere_pare) THEN "even"
  ELSE "none"

\* mutant: a segment with no constraint keeps kind "numbers"
SpecKind_NoDowngrade(parity, ranges, singles) == "numbers"

\* the kind of a parsed segment
SpecKind(parity, ranges, singles) ==
  IF ranges = <<>> /\ singles = <<>> /\ parity = "none" THEN "note" ELSE "numbers"

\* "integral" in low
HasIntegral(p, low) == Contains(low, Txt_integral)

\* the spec dict of a segment
MakeSpec(p, parity, ranges, singles) ==
  [kind    |-> SpecKind(parity, ranges, singles),
   parity  |-> parity,
   ranges  |-> ranges,
   singles |-> singles,
   raw     |-> p]
NumbersSpec(p, parity, ranges) ==
  MakeSpec(p, parity, ranges, subtract_range_endpoints(SingleFindAll(p, 1), ranges))
SegmentOf(p, low) ==
  IF IsPlaceholder(low) THEN <<>>
  ELSE IF HasIntegral(p, low) THEN <<[kind |-> "integral"]>>
  ELSE <<NumbersSpec(p, SegmentParity(low), RangeFindAll(p, 1))>>

\* the body of the loop of parse_rule_cell for one segment: the specs the
\* segment appends (none or one)
SegmentSpecs(p) == SegmentOf(p, ToLower(p))

ParseParts(parts) == Flatten([i \in DOMAIN parts |-> SegmentSpecs(Strip(parts[i]))])
ParseText(t) == IF t = <<>> THEN <<>> ELSE ParseParts(CellParts(t))

parse_rule_cell(text) == ParseText(IF text = None THEN <<>> ELSE Strip(text))

(***************************************************************************)
(* Inputs of the rule-cell parser: cells put together from a few words     *)
(***************************************************************************)
MaxCellWords == 4
CellWords == {
  <<"n","u","m","e","r","e"," ","i","m","p","a","r","e"," ">>,
  <<"n","r","."," ">>,
  <<"5">>,
  <<"1","2">>,
  <<" ","-">>,
  <<" ","B">>,
  <<"I","n","t","e","g","r","a","l">>,
  <<"#">>,
  <<"b","l","o","c">> }
CellTexts == {Flatten(ws) : ws \in AllTexts(CellWords, MaxCellWords)}
\* "integral#", "numere impare nr. 75 -109#" and the cell of the end-to-end example
CellIntegral == <<"i","n","t","e","g","r","a","l","#">>
CellOdd75 == Txt_numere_impare \o <<" ","n","r","."," ","7","5"," ","-","1","0","9","#">>
CellMihalache ==
  Txt_numere_impare \o <<" ","n","r","."," ","2","1"," ","-","2","9","9"," ","B","I","S","#">>
    \o <<" ","n","r","."," ","3","0","1"," ","-","3","1","9","#">>
    \o <<" ","n","r","."," ","3","1","9"," ","B","#">>
\* cells with the keyword of the even numbers
CellEven == Txt_numere_pare \o <<" ","n","r","."," ","5"," ","-","1","2","#">>
CellOddEven ==
  Txt_numere_impare \o <<" ","n","r","."," ","1","1","1"," ","-","1","1","9","#"," ">> \o Txt_numere_pare \o <<" ","n","r","."," ","6","4"," ","-","7","2","#">>
CellEvenOnly == Txt_numere_pare \o <<"#">>
CellSamples == {CellIntegral, CellOdd75, CellMihalache, CellEven, CellOddEven, CellEvenOnly}
CellInputs == CellTexts \cup CellSamples \cup {None}

InitParseCell ==
  /\ pc = "cell"
  /\ cell \in CellInputs
  /\ specs = Idle
  /\ name = Idle /\ nameNorm = Idle /\ hn = Idle /\ hnInfo = Idle
  /\ table = Idle /\ query = Idle /\ block = Idle
  /\ inventory = Idle /\ matchedPre = Idle /\ out = Idle

\* one call of parse_rule_cell
ParseRuleCell ==
  /\ pc = "cell"
  /\ specs' = parse_rule_cell(cell)
  /\ pc' = "parsed"
  /\ UNCHANGED <<name, nameNorm, hn, hnInfo, cell, table, query, block,
                 inventory, matchedPre, out>>

NextParseCell == ParseRuleCell
SpecParseCell == InitParseCell /\ [][NextParseCell]_vars

(***************************************************************************)
(* dedupe_by_address                                                       *)
(***************************************************************************)
\* the characters of identifiers and street names in code-point order
CodeOrder == <<" ", "(", ")", "-", ".", "/">> \o Digits \o <<":">> \o Uppers \o Lowers

\* s < t for Python strings (code-point order, a proper prefix first)
TextLess(s, t) ==
  \E k \in 1..(Len(t)) :
    /\ \A m \in 1..(k - 1) : m <= Len(s) /\ s[m] = t[m]
    /\ \/ k = Len(s) + 1
       \/ k <= Len(s) /\ IndexIn(s[k], CodeOrder) < IndexIn(t[k], CodeOrder)

\* NaN in the addr_housenumber_int column (a house number is never negative)
NaN == -1

\* gdf["addr_housenumber"].astype(str).str.extract(r"(\d+)") and pd.to_numeric:
\* the first run of digits anywhere in the text, NaN when there is none
DigitsFrom(raw, k) ==
  IF k = 0 THEN NaN ELSE IntOf(SubSeq(raw, k, SkipDigits(raw, k) - 1))
ExtractHnInt(raw) ==
  IF raw = None THEN NaN
  ELSE DigitsFrom(raw, FirstOf({k \in 1..Len(raw) : IsDigit(raw[k])}, 0))

\* mutant: a node is preferred to a way
pref_score_NodeFirst(x) ==
  IF StartsAt(x, 1, <<"n","o","d","e",":">>) THEN 0
  ELSE IF StartsAt(x, 1, <<"r","e","l","a","t","i","o","n",":">>) THEN 1
  ELSE IF StartsAt(x, 1, <<"w","a","y",":">>) THEN 2
  ELSE 3

\* pref_score
pref_score(x) ==
  IF StartsAt(x, 1, <<"w","a","y",":">>) THEN 0
  ELSE IF StartsAt(x, 1, <<"r","e","l","a","t","i","o","n",":">>) THEN 1
  ELSE IF StartsAt(x, 1, <<"n","o","d","e",":">>) THEN 2
  ELSE 3

\* the order sort_values puts two numbers in: NaN after every number
NumLess(a, b) == a # NaN /\ (b = NaN \/ a < b)

\* mutant: two rows are duplicates only when their identifiers agree too
SameAddress_ById(a, b) ==
  /\ a.street_norm = b.street_norm
  /\ a.addr_housenumber_int = b.addr_housenumber_int
  /\ a.addr_id = b.addr_id

\* rows a and b have the same (street_col, hn_int_col); NaN equals NaN, as
\* drop_duplicates has it
SameAddress(a, b) ==
  a.street_norm = b.street_norm /\ a.addr_housenumber_int = b.addr_housenumber_int

\* row a sorts strictly before row b under
\* sort_values([street_col, hn_int_col, "_pref", id_col]), or under
\* sort_values([street_col, hn_int_col]) when the frame has no id column
SortsBefore(a, b, hasId) ==
  \/ TextLess(a.street_norm, b.street_norm)
  \/ /\ a.street_norm = b.street_norm
     /\ \/ NumLess(a.addr_housenumber_int, b.addr_housenumber_int)
        \/ /\ a.addr_housenumber_int = b.addr_housenumber_int
           /\ hasId
           /\ \/ pref_score(a.addr_id) < pref_score(b.addr_id)
              \/ /\ pref_score(a.addr_id) = pref_score(b.addr_id)
                 /\ TextLess(a.addr_id, b.addr_id)

\* row i of the rows comes before row j after a stable sort
Ahead(rows, hasId, i, j) ==
  \/ SortsBefore(rows[i], rows[j], hasId)
  \/ ~SortsBefore(rows[j], rows[i], hasId) /\ i < j
\* the place of row i after the sort
SortRank(rows, hasId, i) ==
  1 + Cardinality({j \in 1..Len(rows) : Ahead(rows, hasId, j, i)})

\* a stable sort of the rows (rows that compare equal keep their order)
StableSort(rows, hasId) ==
  [r \in 1..Len(rows) |->
     rows[CHOOSE i \in 1..Len(rows) : SortRank(rows, hasId, i) = r]]

\* the rows at the positions of a set, in their order
RECURSIVE PickRows(_, _, _)
PickRows(rows, keep, i) ==
  IF i > Len(rows) THEN <<>>
  ELSE (IF i \in keep THEN <<rows[i]>> ELSE <<>>) \o PickRows(rows, keep, i + 1)

\* mutant: the last row of each address is kept
DropDuplicates_KeepLast(rows) ==
  PickRows(rows, {i \in 1..Len(rows) :
                    \A j \in (i + 1)..Len(rows) : ~SameAddress(rows[j], rows[i])}, 1)

\* drop_duplicates(subset=[street_col, hn_int_col], keep="first")
DropDuplicates(rows) ==
  PickRows(rows, {i \in 1..Len(rows) :
                    \A j \in 1..(i - 1) : ~SameAddress(rows[j], rows[i])}, 1)

\* the rows of a frame with the addr_housenumber_int column present
WithHnInt(gdf) ==
  IF gdf.hasHnInt THEN gdf.rows
  ELSE [i \in DOMAIN gdf.rows |->
          [gdf.rows[i] EXCEPT !.addr_housenumber_int =
                                 ExtractHnInt(gdf.rows[i].addr_housenumber)]]

\* dedupe_by_address: a frame is its rows and which optional columns it has
dedupe_by_address(gdf) ==
  IF gdf.rows = <<>> THEN gdf
  ELSE [rows     |-> DropDuplicates(StableSort(WithHnInt(gdf), gdf.hasId)),
        hasId    |-> gdf.hasId,
        hasHnInt |-> TRUE]

(***************************************************************************)
(* Inputs of the deduplicator                                              *)
(***************************************************************************)
MaxDedupeRows == 3
DedupeIds == {<<"w","a","y",":","1","0">>, <<"w","a","y",":","9">>,
              <<"r","e","l","a","t","i","o","n",":","1">>,
              <<"n","o","d","e",":","2">>, <<"x",":","3">>}
\* <<normalized street, raw house number>>
DedupeAddresses == {<<<<"a">>, <<"1","A">>>>, <<<<"b">>, <<"x">>>>}
DedupeRows ==
  {[addr_id |-> id, street_norm |-> a[1], addr_housenumber |-> a[2],
    addr_housenumber_int |-> ExtractHnInt(a[2])] :
     id \in DedupeIds, a \in DedupeAddresses}
\* a frame written without the optional columns
WithoutColumns(rows, hasId, hasHnInt) ==
  [rows |-> [i \in DOMAIN rows |->
               [rows[i] EXCEPT
                  !.addr_id = IF hasId THEN @ ELSE None,
                  !.addr_housenumber_int = IF hasHnInt THEN @ ELSE NaN]],
   hasId |-> hasId, hasHnInt |-> hasHnInt]
DedupeFrames ==
  {WithoutColumns(rows, hasId, hasHnInt) :
     rows \in AllTexts(DedupeRows, MaxDedupeRows),
     hasId \in BOOLEAN, hasHnInt \in BOOLEAN}

InitDedupe ==
  /\ pc = "frame"
  /\ inventory \in DedupeFrames
  /\ out = Idle
  /\ name = Idle /\ nameNorm = Idle /\ hn = Idle /\ hnInfo = Idle
  /\ cell = Idle /\ specs = Idle /\ table = Idle /\ query = Idle
  /\ block = Idle /\ matchedPre = Idle

\* one call of dedupe_by_address
DedupeByAddress ==
  /\ pc = "frame"
  /\ out' = dedupe_by_address(inventory)
  /\ pc' = "deduped"
  /\ UNCHANGED <<name, nameNorm, hn, hnInfo, cell, specs, table, query, block,
                 inventory, matchedPre>>

\* the result of a call handed to the next call
DedupeAgain ==
  /\ pc = "deduped"
  /\ inventory' = out
  /\ out' = dedupe_by_address(out)
  /\ pc' = "rededuped"
  /\ UNCHANGED <<name, nameNorm, hn, hnInfo, cell, specs, table, query, block,
                 matchedPre>>

NextDedupe == DedupeByAddress \/ DedupeAgain
SpecDedupe == InitDedupe /\ [][NextDedupe]_vars

(***************************************************************************)
(* parse_sv: a table is a sequence of spreadsheet rows                     *)
(*   [JUDET, NrSV, SediuSV, Artera, RuleText]                              *)
(* NrSV is the value of pd.to_numeric(row["Nr SV"], errors="coerce"): a    *)
(* number, or NaN for a missing or non-numeric cell.                       *)
(***************************************************************************)
Txt_domiciliul == <<"d","o","m","i","c","i","l","i","u","l">>

\* a local variable that has not been assigned yet
Unbound == <<"Unbound">>

\* _safe_str
safe_str_of(t) == IF t = <<>> THEN None ELSE t
safe_str(x) == IF x = None THEN None ELSE safe_str_of(Strip(x))

\* df[df["JUDET"].astype(str).str.strip() == str(judet)]
DistrictRows(rows, judet) ==
  SelectSeq(rows, LAMBDA r : r.JUDET # None /\ Strip(r.JUDET) = judet)

\* pd.to_numeric(df["Nr SV"], errors="coerce").ffill() at row i
FilledFrom(rows, k) == IF k = 0 THEN NaN ELSE rows[k].NrSV
\* mutant: the column without the fill, the number written in row i itself
ForwardFill_Explicit(rows, i) == rows[i].NrSV
ForwardFill(rows, i) == FilledFrom(rows, LastOf({k \in 1..i : rows[k].NrSV # NaN}, 0))

\* target = df[df["sv_ffill"] == float(sv)]: the positions of its rows
TargetRows(rows, sv) == {i \in 1..Len(rows) : ForwardFill(rows, i) = sv}

\* mutant: the last target row that carries the number itself
HeaderRow_Last(rows, target, sv) ==
  LastOf({i \in target : rows[i].NrSV = sv}, LastOf(target, 0))

\* header_row: the first target row that carries the number itself, else
\* the first target row
HeaderRow(rows, target, sv) ==
  FirstOf({i \in target : rows[i].NrSV = sv}, FirstOf(target, 0))

\* rules_df: the target rows with a non-empty street, in row order
IsRuleRow(r) == r.Artera # None /\ Strip(r.Artera) # <<>>
RuleRowsFrom(rows, target) ==
  PickRows(rows, {i \in target : IsRuleRow(rows[i])}, 1)

RECURSIVE RuleLoop(_, _, _, _)
\* a rule row that is not a domicile exception: rule_text is read and parsed
RuleAppend(rs, i, acc, street, text) ==
  RuleLoop(rs, i + 1, text,
           [acc EXCEPT !.rules = Append(@, [street |-> street,
                                            specs  |-> parse_rule_cell(text),
                                            raw    |-> text])])
\* a domicile-exception row: the note takes rule_text as it is at that point
NoteAppend(rs, i, ruleText, acc, street) ==
  IF ruleText = Unbound THEN [status |-> "UnboundLocalError"]
  ELSE RuleLoop(rs, i + 1, ruleText,
                [acc EXCEPT !.notes = Append(@, [street |-> street, raw |-> ruleText])])
RuleRow(rs, i, ruleText, acc, street) ==
  IF StartsAt(ToLower(street), 1, Txt_domiciliul)
  THEN NoteAppend(rs, i, ruleText, acc, street)
  ELSE RuleAppend(rs, i, acc, street, safe_str(rs[i].RuleText))
\* the loop over rules_df from row i on; ruleText is the local rule_text
RuleLoop(rs, i, ruleText, acc) ==
  IF i > Len(rs) THEN acc
  ELSE RuleRow(rs, i, ruleText, acc, safe_str(rs[i].Artera))

\* the block built from the header row and the rule rows
BuildBlock(rows, target, judet, sv, header) ==
  RuleLoop(RuleRowsFrom(rows, target), 1, Unbound,
           [status |-> "ok", judet |-> judet, sv |-> sv,
            sediu_sv |-> safe_str(rows[header].SediuSV),
            rules |-> <<>>, notes |-> <<>>])
BlockOf(rows, target, judet, sv) ==
  IF target = {} THEN [status |-> "ValueError"]
  ELSE BuildBlock(rows, target, judet, sv, HeaderRow(rows, target, sv))
ParseDistrict(rows, judet, sv) == BlockOf(rows, TargetRows(rows, sv), judet, sv)

parse_sv(tbl, judet, sv) == ParseDistrict(DistrictRows(tbl, judet), judet, sv)

(***************************************************************************)
(* match_sv_addresses: the inventory is a sequence of address rows         *)
(*   [addr_id, addr_street, addr_housenumber, addr_housenumber_int]        *)
(***************************************************************************)
\* the columns match_sv_addresses computes once
WithInfo(r, info) ==
  [addr_id |-> r.addr_id, addr_street |-> r.addr_street,
   addr_housenumber |-> r.addr_housenumber,
   addr_housenumber_int |-> r.addr_housenumber_int,
   street_norm |-> normalize_street(r.addr_street),
   hn_set |-> info.covered, hn_parity_inferred |-> info.parity,
   hn_is_range |-> info.isRange]
Precompute(rows) ==
  [i \in DOMAIN rows |-> WithInfo(rows[i], housenumber_info(rows[i].addr_housenumber))]

\* Series.str.contains takes its argument as a regular expression. The
\* patterns here are made of literal characters, of '.', which stands for any
\* character but a line feed, and of parentheses, which group; no other
\* character that is special in a regular expression is in an input.
\* re.compile(pat) succeeds: every ')' closes a '(' and every '(' is closed
RegexDepth(pat, k) ==
  Cardinality({j \in 1..k : pat[j] = "("}) - Cardinality({j \in 1..k : pat[j] = ")"})
RegexValid(pat) ==
  /\ \A k \in 1..Len(pat) : RegexDepth(pat, k) >= 0
  /\ RegexDepth(pat, Len(pat)) = 0
\* a group without alternatives matches what its content matches
RegexBody(pat) == SelectSeq(pat, LAMBDA c : c \notin {"(", ")"})
\* re.search(pat, hay) of a compiled pattern without groups
RegexAt(hay, i, pat) ==
  /\ i + Len(pat) - 1 <= Len(hay)
  /\ \A k \in 1..Len(pat) :
       \/ pat[k] = hay[i + k - 1]
       \/ pat[k] = "." /\ hay[i + k - 1] # "LF"
RegexContains(hay, pat) == \E i \in 1..(Len(hay) + 1) : RegexAt(hay, i, pat)

\* the street candidates of a rule
ContainsRows(gdf, street_norm) ==
  SelectSeq(gdf, LAMBDA r : RegexContains(r.street_norm, RegexBody(street_norm)))
CandidatesOr(gdf, street_norm, exact) ==
  IF exact = <<>> /\ street_norm # <<>> THEN ContainsRows(gdf, street_norm) ELSE exact
StreetRows(gdf, street_norm) ==
  CandidatesOr(gdf, street_norm, SelectSeq(gdf, LAMBDA r : r.street_norm = street_norm))

\* the fallback is reached with a pattern that does not compile: re.error
StreetRaisesOn(street_norm, exact) ==
  exact = <<>> /\ street_norm # <<>> /\ ~RegexValid(street_norm)
StreetRaises(gdf, street_norm) ==
  StreetRaisesOn(street_norm, SelectSeq(gdf, LAMBDA r : r.street_norm = street_norm))
\* lines 250-257 for one rule street: the candidates, or the error
StreetSelect(gdf, street_norm) ==
  IF StreetRaises(gdf, street_norm) THEN [status |-> "re.error"]
  ELSE [status |-> "ok", rows |-> StreetRows(gdf, street_norm)]

\* singles_int
SinglesInt(singles) == {IntOf(singles[i]) : i \in {k \in DOMAIN singles : IntOk(singles[k])}}

\* mutant: a range pair accepts every row
RangeAccepts_Always(rg, hn_set) == TRUE

\* one (start, end) pair of the range filter accepts the row
RangeAccepts(rg, hn_set) ==
  /\ IntOk(rg[1]) /\ IntOk(rg[2])
  /\ \E n \in hn_set :
       /\ RangeBounds(IntOf(rg[1]), IntOf(rg[2]))[1] <= n
       /\ n <= RangeBounds(IntOf(rg[1]), IntOf(rg[2]))[2]

\* mutant: the singles of a spec are not looked at
RowOkSingles_Ignored(hn_set, singles_int) == TRUE

\* row_ok
RowOkSingles(hn_set, singles_int) ==
  ~(singles_int # {} /\ hn_set \cap singles_int = {})
\* mutant: neither the inferred parity nor the parity of the numbers counts
row_ok_NoParity(row, spec) ==
  /\ row.hn_set # {}
  /\ (spec.ranges # <<>> =>
        \E i \in DOMAIN spec.ranges : RangeAccepts(spec.ranges[i], row.hn_set))
  /\ RowOkSingles(row.hn_set, SinglesInt(spec.singles))

row_ok(row, spec) ==
  /\ row.hn_set # {}
  /\ ~(row.hn_parity_inferred = "even" /\ spec.parity = "odd")
  /\ ~(row.hn_parity_inferred = "odd" /\ spec.parity = "even")
  /\ ~(spec.parity = "odd" /\ ~\E n \in row.hn_set : n % 2 = 1)
  /\ ~(spec.parity = "even" /\ ~\E n \in row.hn_set : n % 2 = 0)
  /\ (spec.ranges # <<>> =>
        \E i \in DOMAIN spec.ranges : RangeAccepts(spec.ranges[i], row.hn_set))
  /\ RowOkSingles(row.hn_set, SinglesInt(spec.singles))

\* the frames one spec appends to matched_frames (none or one); a frame
\* remembers the spec that made it
FrameOf(spec, rows) == IF rows = <<>> THEN <<>> ELSE <<[spec |-> spec, rows |-> rows]>>
\* mutant: an integral spec takes only the candidates that have a number
SpecFrames_IntegralNeedsNumber(street_gdf, spec) ==
  IF spec.kind = "integral"
  THEN FrameOf(spec, SelectSeq(street_gdf, LAMBDA r : r.hn_set # {}))
  ELSE IF spec.kind # "numbers" THEN <<>>
  ELSE FrameOf(spec, SelectSeq(street_gdf, LAMBDA r : row_ok(r, spec)))
SpecFrames(street_gdf, spec) ==
  IF spec.kind = "integral" THEN <<[spec |-> spec, rows |-> street_gdf]>>
  ELSE IF spec.kind # "numbers" THEN <<>>
  ELSE FrameOf(spec, SelectSeq(street_gdf, LAMBDA r : row_ok(r, spec)))

\* the frames one rule appends
FramesOn(street_gdf, rspecs) ==
  IF street_gdf = <<>> THEN <<>>
  ELSE Flatten([i \in DOMAIN rspecs |-> SpecFrames(street_gdf, rspecs[i])])
RuleFrames(gdf, rule) ==
  IF rule.street = None \/ rule.street = <<>> THEN <<>>
  ELSE FramesOn(StreetRows(gdf, normalize_street(rule.street)), rule.specs)

\* matched_frames after the loop over the rules
MatchedFrames(gdf, rules) == Flatten([i \in DOMAIN rules |-> RuleFrames(gdf, rules[i])])

\* pd.concat(matched_frames) (no rows when there is no frame)
ConcatFrames(frames) == Flatten([i \in DOMAIN frames |-> frames[i].rows])

\* some rule of the block makes the street selection raise
RuleRaises(gdf, rule) ==
  /\ rule.street # None /\ rule.street # <<>>
  /\ StreetRaises(gdf, normalize_street(rule.street))
MatchRaises(gdf, rules) == \E i \in DOMAIN rules : RuleRaises(gdf, rules[i])

\* the frame match_sv_addresses returns
MatchResult(frames, sv) ==
  [status |-> "ok",
   rows |-> dedupe_by_address([rows |-> ConcatFrames(frames),
                               hasId |-> TRUE, hasHnInt |-> TRUE]).rows,
   sv |-> sv]
MatchOn(gdf, sv_parsed) ==
  IF MatchRaises(gdf, sv_parsed.rules) THEN [status |-> "re.error"]
  ELSE MatchResult(MatchedFrames(gdf, sv_parsed.rules), sv_parsed.sv)
match_sv_addresses(rows, sv_parsed) == MatchOn(Precompute(rows), sv_parsed)

(***************************************************************************)
(* Inputs of the pipeline parse_sv -> match_sv_addresses                   *)
(***************************************************************************)
MaxInventory == 2

Txt_B == <<"B">>
StreetMihalache == <<"B","u","l","e","v","a","r","d","u","l"," ","I","o","n"," ","M","i","h","a","l","a","c","h","e">>
StreetIonMihalache == <<"I","o","n"," ","M","i","h","a","l","a","c","h","e">>
StreetStrA == <<"S","t","r","."," ","A">>
StreetStrAUpper == <<"S","T","R","."," ","A">>
StreetUnclosed == <<"S","t","r","."," ","A"," ","(","f","o","s","t">>
StreetDomiciliul == <<"D","o","m","i","c","i","l","i","u","l"," ","p","e"," ","r","a","z","a"," ","s","e","c","."," ","1">>

\* the address records an inventory is drawn from: record k has street
\* k \div 8, the house number (k \div 2) % 4 and the element type k % 2
InvStreets == <<StreetMihalache, StreetStrA>>
InvHouseNumbers == <<<<"2","1">>, <<"2","2">>, <<"6","4","-","7","2">>, <<"A">>>>
InvTypes == <<<<"w","a","y",":">>, <<"n","o","d","e",":">>>>
InvKeys == 0..15
InvRecord(k) ==
  [addr_id |-> InvTypes[(k % 2) + 1] \o Dec(k),
   addr_street |-> InvStreets[(k \div 8) + 1],
   addr_housenumber |-> InvHouseNumbers[((k \div 2) % 4) + 1],
   addr_housenumber_int |-> ExtractHnInt(InvHouseNumbers[((k \div 2) % 4) + 1])]
Inventories ==
  {[i \in DOMAIN ks |-> InvRecord(ks[i])] :
     ks \in {t \in AllTexts(InvKeys, MaxInventory) :
               \A i \in DOMAIN t : \A j \in DOMAIN t : i < j => t[i] < t[j]}}
\* two records on Bulevardul Ion Mihalache, at house numbers 21 and 22
InventoryMihalache == <<InvRecord(0), InvRecord(3)>>

\* the rule cells and streets of a table
MatchCells == {
  CellMihalache, CellIntegral,
  <<"n","r","."," ","3","1","9"," ","B","#">>,
  Txt_numere_pare \o <<" ","n","r","."," ","2"," ","-","3","0","#">>,
  <<"n","r","."," ","2","2","#">>,
  Txt_numere_impare \o <<" ","n","r","."," ","6","3"," ","-","2","1","#">>,
  <<"b","l","o","c"," ","A","#">>,
  <<"n","r","."," ","-","#">> }
MatchStreets == {StreetMihalache, StreetIonMihalache, StreetStrAUpper}

\* the header row of precinct 1 and a rule row under it
HeaderRow1 ==
  [JUDET |-> Txt_B, NrSV |-> 1, SediuSV |-> <<"S","c","o","a","l","a">>,
   Artera |-> None, RuleText |-> <<"n","r","."," ","-","#">>]
RuleRowOf(street, text) ==
  [JUDET |-> Txt_B, NrSV |-> NaN, SediuSV |-> None,
   Artera |-> street, RuleText |-> text]
TableMihalache == <<HeaderRow1, RuleRowOf(StreetMihalache, CellMihalache)>>
MatchTableSamples == {
  <<HeaderRow1>>,
  <<HeaderRow1, RuleRowOf(StreetUnclosed, CellIntegral)>>,
  <<HeaderRow1, RuleRowOf(StreetMihalache, CellIntegral),
                RuleRowOf(StreetMihalache, <<"n","r","."," ","2","2","#">>)>>,
  <<HeaderRow1, RuleRowOf(StreetStrAUpper, CellIntegral),
                RuleRowOf(StreetDomiciliul, None)>>,
  <<HeaderRow1, RuleRowOf(StreetDomiciliul, None),
                RuleRowOf(StreetMihalache, CellIntegral)>> }
MatchTables ==
  {<<HeaderRow1, RuleRowOf(st, c)>> : st \in MatchStreets, c \in MatchCells}
    \cup MatchTableSamples
MatchQueries == {[judet |-> Txt_B, sv |-> n] : n \in {1, 2}}

InitMatch ==
  /\ pc = "table"
  /\ table \in MatchTables
  /\ query \in MatchQueries
  /\ inventory \in Inventories
  /\ block = Idle /\ matchedPre = Idle /\ out = Idle
  /\ name = Idle /\ nameNorm = Idle /\ hn = Idle /\ hnInfo = Idle
  /\ cell = Idle /\ specs = Idle

\* one call of parse_sv
ParseSv ==
  /\ pc = "table"
  /\ block' = parse_sv(table, query.judet, query.sv)
  /\ pc' = "extracted"
  /\ UNCHANGED <<name, nameNorm, hn, hnInfo, cell, specs, table, query,
                 inventory, matchedPre, out>>

\* one call of match_sv_addresses on the block parse_sv returned;
\* matchedPre is matched_frames as it is before the concatenation (the list
\* is lost when the call raises)
MatchSvAddresses ==
  /\ pc = "extracted"
  /\ block.status = "ok"
  /\ out' = match_sv_addresses(inventory, block)
  /\ matchedPre' = IF out'.status = "ok"
                     THEN MatchedFrames(Precompute(inventory), block.rules)
                     ELSE Idle
  /\ pc' = IF out'.status = "ok" THEN "matched" ELSE "match_raised"
  /\ UNCHANGED <<name, nameNorm, hn, hnInfo, cell, specs, table, query, block,
                 inventory>>

NextMatch == ParseSv \/ MatchSvAddresses
SpecMatch == InitMatch /\ [][NextMatch]_vars

(***************************************************************************)
(* Inputs of parse_sv alone: tables of a few rows of two precincts, with   *)
(* rule rows, domicile rows and rows without a street                      *)
(***************************************************************************)
MaxTableRows == 3

StreetStrB == <<"S","t","r","."," ","B">>
Txt_CJ == <<"C","J">>
ExtractStreets == {None, <<" ">>, StreetStrA, StreetStrB, StreetDomiciliul}
\* the rule cell written next to a street
ExtractCellOf(street) ==
  CASE street = StreetStrA -> CellIntegral
    [] street = StreetStrB -> <<"n","r","."," ","5","#">>
    [] street = StreetDomiciliul -> <<"b","l","o","c"," ","A","#">>
    [] OTHER -> <<"n","r","."," ","-","#">>
ExtractRowOf(judet, nr, street) ==
  [JUDET |-> judet, NrSV |-> nr,
   SediuSV |-> IF nr = NaN THEN None ELSE <<"S","c","o","a","l","a">> \o Dec(nr),
   Artera |-> street, RuleText |-> ExtractCellOf(street)]
ExtractRows ==
  {ExtractRowOf(Txt_B, nr, st) : nr \in {NaN, 1, 2}, st \in ExtractStreets}
    \cup {ExtractRowOf(Txt_CJ, 1, StreetStrA)}
ExtractTables == AllTexts(ExtractRows, MaxTableRows)

InitExtract ==
  /\ pc = "table"
  /\ table \in ExtractTables
  /\ query = [judet |-> Txt_B, sv |-> 1]
  /\ block = Idle /\ inventory = Idle /\ matchedPre = Idle /\ out = Idle
  /\ name = Idle /\ nameNorm = Idle /\ hn = Idle /\ hnInfo = Idle
  /\ cell = Idle /\ specs = Idle

NextExtract == ParseSv
SpecExtract == InitExtract /\ [][NextExtract]_vars

(***************************************************************************)
(* Inputs of row_ok alone: one candidate house number against the spec of  *)
(* one rule segment                                                        *)
(***************************************************************************)
RowParities == {<<>>, Txt_numere_impare \o <<" ">>, Txt_numere_pare \o <<" ">>}
RowBodies == {
  <<>>,
  <<"n","r","."," ","1"," ","-","6","3">>,
  <<"n","r","."," ","7","2"," ","-","6","4">>,
  <<"n","r","."," ","6","0"," ","-","7","0">>,
  <<"n","r","."," ","2","1"," ","-","2","9","9"," ","B","I","S">>,
  <<"n","r","."," ","6","3">>,
  <<"n","r","."," ","3","1","9"," ","B">>,
  <<"n","r","."," ","1"," ","-","6","3",","," ","n","r","."," ","6","6">>,
  <<"n","r","."," ","1"," ","-","6","3",","," ","n","r","."," ","2","1">>,
  <<"n","r","."," ","2","1"," ","-","2","9","9"," ","B","I","S",","," ","n","r","."," ","6","0"," ","-","7","0">>,
  <<"n","r","."," ","6","6",","," ","n","r","."," ","3","1","9"," ","B">>,
  <<"n","r","."," ","1"," ","-","6","3"," ","n","r","."," ","6","6">> }
\* the segments that parse to one spec of kind numbers
RowCells ==
  {c \in {par \o body : par \in RowParities, body \in RowBodies} :
     Len(parse_rule_cell(c)) = 1 /\ parse_rule_cell(c)[1].kind = "numbers"}
RowHouseNumbers == {
  None, <<>>, <<"A">>, <<"2","1">>, <<"2","2">>, <<"6","3">>, <<"1","4","A">>,
  <<"6","4","-","7","2">>, <<"6","3","-","7","2">>, <<"7","2","-","6","4">>, <<"7","5","-","7","9">>, <<"1","-","6","3">> }
\* the inventory row of a candidate house number
CandidateOf(h) ==
  [addr_id |-> <<"w","a","y",":","1">>, addr_street |-> StreetStrA,
   addr_housenumber |-> h, addr_housenumber_int |-> ExtractHnInt(h)]

InitRowOk ==
  /\ pc = "candidate"
  /\ cell \in RowCells
  /\ specs = parse_rule_cell(cell)
  /\ hn \in RowHouseNumbers
  /\ hnInfo = Idle /\ out = Idle
  /\ name = Idle /\ nameNorm = Idle /\ table = Idle /\ query = Idle
  /\ block = Idle /\ inventory = Idle /\ matchedPre = Idle

\* row_ok applied to the candidate with its precomputed columns
RowOk ==
  /\ pc = "candidate"
  /\ hnInfo' = housenumber_info(hn)
  /\ out' = row_ok(WithInfo(CandidateOf(hn), housenumber_info(hn)), specs[1])
  /\ pc' = "judged"
  /\ UNCHANGED <<name, nameNorm, hn, cell, specs, table, query, block,
                 inventory, matchedPre>>

NextRowOk == RowOk
SpecRowOk == InitRowOk /\ [][NextRowOk]_vars

(***************************************************************************)
(* Inputs of the street selection alone: the street of one rule against    *)
(* the streets of a small inventory                                        *)
(***************************************************************************)
MaxStreetLen == 3
StreetAlphabet == {"a", "B", ".", "(", ")", " "}
RuleStreets == AllTexts(StreetAlphabet, MaxStreetLen) \ {<<>>}
InventoryStreets == {None, <<"a">>, <<"A","b">>, <<"a",".","b">>, <<"a","a","b">>,
                     <<"b"," ","a">>}
StreetInventories ==
  {[i \in DOMAIN sts |-> [addr_id |-> <<"w","a","y",":">> \o Dec(i),
                          addr_street |-> sts[i],
                          addr_housenumber |-> <<"1">>,
                          addr_housenumber_int |-> 1]] :
     sts \in AllTexts(InventoryStreets, 2)}

InitStreet ==
  /\ pc = "street"
  /\ name \in RuleStreets
  /\ inventory \in StreetInventories
  /\ nameNorm = Idle /\ out = Idle
  /\ hn = Idle /\ hnInfo = Idle /\ cell = Idle /\ specs = Idle
  /\ table = Idle /\ query = Idle /\ block = Idle /\ matchedPre = Idle

\* the street selection of match_sv_addresses for one rule street
SelectStreet ==
  /\ pc = "street"
  /\ nameNorm' = normalize_street(name)
  /\ out' = StreetSelect(Precompute(inventory), normalize_street(name))
  /\ pc' = "selected"
  /\ UNCHANGED <<name, hn, hnInfo, cell, specs, table, query, block,
                 inventory, matchedPre>>

NextStreet == SelectStreet
SpecStreet == InitStreet /\ [][NextStreet]_vars

(***************************************************************************)
(* Properties                                                              *)
(***************************************************************************)
\* the house numbers of the records match_sv_addresses returned
C1_HouseNumbers == [i \in DOMAIN out.rows |-> out.rows[i].addr_housenumber]

\* C1: for the block with the single rule cell
\* "numere impare nr. 21 -299 BIS# nr. 301 -319# nr. 319 B#" on Bulevardul
\* Ion Mihalache and the inventory of the two records at house numbers 21
\* and 22 on that street, parsing and matching (dedupe included) returns
\* exactly the number-21 record.
C1_OnlyNumber21 ==
  (pc = "matched" /\ table = TableMihalache /\ inventory = InventoryMihalache) =>
    /\ Len(out.rows) = 1
    /\ out.rows[1].addr_id = InvRecord(0).addr_id
    /\ C1_HouseNumbers = <<<<"2","1">>>>

\* a range pair or a single of a spec that int() converts
C2_Convertible(sp) ==
  \/ \E i \in DOMAIN sp.ranges : IntOk(sp.ranges[i][1]) /\ IntOk(sp.ranges[i][2])
  \/ \E i \in DOMAIN sp.singles : IntOk(sp.singles[i])

\* C2: a spec of kind `numbers` with unspecified parity, no
\* integer-convertible range and no integer-convertible single accepts no
\* candidate record: no frame of matched_frames comes from such a spec.
C2_UnconvertibleAcceptsNothing ==
  pc = "matched" =>
    \A i \in DOMAIN matchedPre :
      matchedPre[i].spec.kind = "numbers" =>
        (matchedPre[i].spec.parity # "none" \/ C2_Convertible(matchedPre[i].spec))

\* C3: normalize is idempotent: a normalized name handed to normalize again
\* comes back unchanged (after NormalizeAgain, `name` holds the first result
\* and `nameNorm` the second).
C3_Idempotent == pc = "renormalized" => nameNorm = name

\* C4 as stated: normalize("Str. E'mile") and normalize("str emile") are the
\* same string.
C4_SameAsPlain ==
  (pc = "normalized" /\ name = StrEmileAccent)
    => nameNorm = normalize_street(StrEmilePlain)

\* C4 amended: normalize folds case and diacritics but keeps punctuation:
\* normalize("Str. E'mile") is "str. emile", the same string as
\* normalize("str. emile"), and differs from normalize("str emile").
C4_SameAsDotted ==
  (pc = "normalized" /\ name = StrEmileAccent)
    => /\ nameNorm = StrEmileDotted
       /\ nameNorm = normalize_street(StrEmileDotted)
       /\ nameNorm # normalize_street(StrEmilePlain)

C4_Witness ==
  pc = "normalized" /\ name = StrEmileAccent /\ nameNorm = StrEmileDotted

\* what C5 says interpret returns for the endpoints a and b
C5_Expected(a, b) ==
  LET lo == IF a <= b THEN a ELSE b
      hi == IF a <= b THEN b ELSE a
      same == (lo % 2) = (hi % 2)
  IN [covered |-> IF same THEN {n \in lo..hi : n % 2 = lo % 2} ELSE lo..hi,
      parity  |-> IF ~same THEN "none" ELSE IF lo % 2 = 0 THEN "even" ELSE "odd",
      isRange |-> TRUE]

\* C5: for all non-negative A and B, interpret("A-B") is a range over
\* lo = min(A,B) .. hi = max(A,B): stepped by two with parity even/odd when
\* the endpoints have the same parity, every integer with parity none when
\* they differ; "64-72" gives {64,66,68,70,72}/even, "75-79" gives
\* {75,77,79}/odd and "72-64" gives the same as "64-72".
C5_HyphenRange ==
  (pc = "interpreted" /\ Contains(hn, <<"-">>)) =>
    /\ \A a \in HnNumbers : \A b \in HnNumbers :
         hn = RangeText(a, <<>>, "-", b) => hnInfo = C5_Expected(a, b)
    /\ hn \in {<<"6","4","-","7","2">>, <<"7","2","-","6","4">>} =>
         hnInfo = [covered |-> {64, 66, 68, 70, 72}, parity |-> "even", isRange |-> TRUE]
    /\ hn = <<"7","5","-","7","9">> =>
         hnInfo = [covered |-> {75, 77, 79}, parity |-> "odd", isRange |-> TRUE]

C5_Witness ==
  /\ pc = "interpreted"
  /\ hn = <<"7","2","-","6","4">>
  /\ hnInfo.covered = {64, 66, 68, 70, 72}

\* C6: a pair of integers separated by an en-dash (U+2013), with or without
\* blanks around it, is interpreted as the same range as with an ASCII
\* hyphen, and a pair separated by any other character is not a range.
C6_AnyDashGlyph ==
  pc = "interpreted" =>
    \A a \in HnNumbers : \A b \in HnNumbers : \A pad \in HnPaddings :
      /\ hn = RangeText(a, pad, "ENDASH", b) => hnInfo = C5_Expected(a, b)
      /\ \A sep \in HnSeparators \ {"-", "ENDASH"} :
           hn = RangeText(a, pad, sep, b) => ~hnInfo.isRange

\* the integer a trimmed text begins with
C7_LeadingInt(s) == IntOf(SubStr(Strip(s), 1, SkipDigits(Strip(s), 1) - 1))
C7_BeginsWithDigit(s) == Strip(s) # <<>> /\ IsDigit(Strip(s)[1])

\* C7 as stated: the covered set is empty (with parity none, not a range)
\* exactly when the input is absent or holds no decimal digit anywhere; a
\* non-range input with a leading digit run yields that integer alone.
C7_EmptyIffNoDigit ==
  pc = "interpreted" =>
    /\ hnInfo.covered = {} <=> (hn = None \/ \A i \in DOMAIN hn : ~IsDigit(hn[i]))
    /\ hnInfo.covered = {} => hnInfo = NoHnInfo
    /\ (hn # None /\ C7_BeginsWithDigit(hn) /\ ~hnInfo.isRange) =>
         hnInfo = [covered |-> {C7_LeadingInt(hn)}, parity |-> "none", isRange |-> FALSE]

\* C7 amended: the covered set is empty (with parity none, not a range)
\* exactly when the input is absent or its trimmed text does not begin with
\* a decimal digit (digits further inside, as in "A14", are not looked for);
\* a non-range input that begins with a digit run yields that integer alone.
C7_EmptyIffNoLeadingDigit ==
  pc = "interpreted" =>
    /\ hnInfo.covered = {} <=> (hn = None \/ ~C7_BeginsWithDigit(hn))
    /\ hnInfo.covered = {} => hnInfo = NoHnInfo
    /\ (hn # None /\ C7_BeginsWithDigit(hn) /\ ~hnInfo.isRange) =>
         hnInfo = [covered |-> {C7_LeadingInt(hn)}, parity |-> "none", isRange |-> FALSE]

C7_Witness ==
  /\ pc = "interpreted"
  /\ hn = <<"A", "1", "4">>
  /\ hnInfo = NoHnInfo

\* the non-blank '#'-delimited segments of a cell
C8_Segments(c) == IF c = None THEN <<>> ELSE CellParts(Strip(c))

\* C8: parse returns no spec of kind `numbers` with unspecified parity, no
\* ranges and no singles: every such segment is emitted with kind `note`
\* and keeps its raw text.
C8_EmptyNumbersIsNote ==
  pc = "parsed" =>
    \A i \in DOMAIN specs :
      (specs[i].kind # "integral" /\ specs[i].parity = "none"
         /\ specs[i].ranges = <<>> /\ specs[i].singles = <<>>) =>
        /\ specs[i].kind = "note"
        /\ \E j \in DOMAIN C8_Segments(cell) : C8_Segments(cell)[j] = specs[i].raw

C8_Witness ==
  /\ pc = "parsed"
  /\ cell = <<"b","l","o","c","#","b","l","o","c">>
  /\ Len(specs) = 2
  /\ specs[2] = [kind |-> "note", parity |-> "none", ranges |-> <<>>,
                 singles |-> <<>>, raw |-> <<"b","l","o","c">>]

\* C9: every non-blank segment that contains the marker "integral" (in any
\* letter case) yields exactly one spec {kind: integral} and nothing else
\* yields one, so a cell has as many integral specs as it has such segments;
\* parse("integral#") is [{kind: integral}].
C9_IntegralPerSegment ==
  pc = "parsed" =>
    /\ Cardinality({i \in DOMAIN specs : specs[i].kind = "integral"})
         = Cardinality({j \in DOMAIN C8_Segments(cell) :
                          Contains(ToLower(C8_Segments(cell)[j]), Txt_integral)})
    /\ \A i \in DOMAIN specs :
         specs[i].kind = "integral" => specs[i] = [kind |-> "integral"]
    /\ cell = CellIntegral => specs = <<[kind |-> "integral"]>>

\* the (street, house-number) key of row i of a frame
C10_Key(gdf, i) ==
  <<gdf.rows[i].street_norm,
    IF gdf.hasHnInt THEN gdf.rows[i].addr_housenumber_int
    ELSE ExtractHnInt(gdf.rows[i].addr_housenumber)>>
C10_Keys(gdf) == {C10_Key(gdf, i) : i \in DOMAIN gdf.rows}
\* the rank of an identifier's kind: way 0, relation 1, node 2, other 3
C10_Rank(id) ==
  CASE StartsAt(id, 1, <<"w","a","y",":">>) -> 0
    [] StartsAt(id, 1, <<"r","e","l","a","t","i","o","n",":">>) -> 1
    [] StartsAt(id, 1, <<"n","o","d","e",":">>) -> 2
    [] OTHER -> 3
\* identifier a is strictly preferred to identifier b
C10_Preferred(a, b) ==
  \/ C10_Rank(a) < C10_Rank(b)
  \/ C10_Rank(a) = C10_Rank(b) /\ TextLess(a, b)
\* the same record, whatever was filled into its house-number column
C10_SameRecord(a, b) ==
  /\ a.addr_id = b.addr_id /\ a.street_norm = b.street_norm
  /\ a.addr_housenumber = b.addr_housenumber

\* C10: dedupe returns, for each distinct (streetNormalized, houseNumberInt)
\* key of the input, exactly one record; that record is an input record with
\* that key and no input record with that key is preferred to it (kind rank
\* way < relation < node < other, then the smaller identifier); and no key
\* absent from the input appears in the output.
C10_OnePreferredPerKey ==
  (pc = "deduped" /\ inventory.hasId) =>
    /\ C10_Keys(out) = C10_Keys(inventory)
    /\ \A i \in DOMAIN out.rows : \A j \in DOMAIN out.rows :
         C10_Key(out, i) = C10_Key(out, j) => i = j
    /\ \A i \in DOMAIN out.rows :
         /\ \E k \in DOMAIN inventory.rows :
              /\ C10_SameRecord(inventory.rows[k], out.rows[i])
              /\ C10_Key(inventory, k) = C10_Key(out, i)
         /\ \A k \in DOMAIN inventory.rows :
              C10_Key(inventory, k) = C10_Key(out, i) =>
                ~C10_Preferred(inventory.rows[k].addr_id, out.rows[i].addr_id)

C10_Witness ==
  /\ pc = "deduped"
  /\ inventory.hasId
  /\ Len(inventory.rows) = 3
  /\ inventory.rows[1].addr_id = <<"n","o","d","e",":","2">>
  /\ inventory.rows[2].addr_id = <<"w","a","y",":","9">>
  /\ inventory.rows[3].addr_id = <<"w","a","y",":","1","0">>
  /\ Len(out.rows) = 1
  /\ out.rows[1].addr_id = <<"w","a","y",":","1","0">>

\* the distinct (street, raw house number) keys of a frame
C11_RawKeys(gdf) ==
  {<<gdf.rows[i].street_norm, gdf.rows[i].addr_housenumber>> : i \in DOMAIN gdf.rows}

\* C11: dedupe is idempotent and never grows the key set: a second call on
\* the result of a call returns that result unchanged, and the result of a
\* call has at most as many records as its input has distinct
\* (street, houseNumber) keys.
C11_IdempotentAndBounded ==
  /\ pc = "rededuped" => out = inventory
  /\ pc = "deduped" => Len(out.rows) <= Cardinality(C11_RawKeys(inventory))

C11_Witness ==
  /\ pc = "rededuped"
  /\ inventory.hasId
  /\ Len(inventory.rows) = 2
  /\ inventory.rows[1].addr_id = <<"w","a","y",":","1","0">>
  /\ inventory.rows[2].addr_id = <<"n","o","d","e",":","2">>
  /\ out = inventory

\* the rows of the requested district, in table order
C12_District == SelectSeq(table, LAMBDA r : r.JUDET = query.judet)
\* row i of the district belongs to the requested precinct: the most recent
\* precinct number at or above it is the requested one
C12_InBlock(i) ==
  \E k \in 1..i :
    /\ C12_District[k].NrSV = query.sv
    /\ \A n \in (k + 1)..i : C12_District[n].NrSV = NaN

\* C12: extract fails only with the not-found error, and exactly when no row
\* of the requested district has a forward-filled precinct number equal to
\* the requested one; whenever such a row exists it returns a block.
C12_FailsOnlyNotFound ==
  pc = "extracted" =>
    /\ block.status \in {"ok", "ValueError"}
    /\ block.status = "ValueError" <=> ~\E i \in DOMAIN C12_District : C12_InBlock(i)

\* C13: a candidate whose house number is a same-parity range is never
\* accepted by a numbers spec of the opposite parity, whatever the ranges and
\* singles of the spec; a mixed-parity range such as "63-72" is not rejected
\* by this guard: a spec that asks for odd numbers only, or for even numbers
\* only, accepts it.
C13_InferredParityGuard ==
  pc = "judged" =>
    /\ (hnInfo.isRange /\ hnInfo.parity = "even" /\ specs[1].parity = "odd") => ~out
    /\ (hnInfo.isRange /\ hnInfo.parity = "odd" /\ specs[1].parity = "even") => ~out
    /\ (hn = <<"6","3","-","7","2">> /\ specs[1].parity # "none"
          /\ specs[1].ranges = <<>> /\ specs[1].singles = <<>>) =>
         (hnInfo.isRange /\ hnInfo.parity = "none" /\ out)

C13_Witness ==
  /\ pc = "judged"
  /\ hn = <<"6","4","-","7","2">>
  /\ hnInfo.parity = "even"
  /\ specs[1].parity = "odd"
  /\ specs[1].ranges = <<<<<<"6","0">>, <<"7","0">>>>>>
  /\ out = FALSE

\* the smaller and the larger of two integers
C15_Min(a, b) == IF a <= b THEN a ELSE b
C15_Max(a, b) == IF a <= b THEN b ELSE a
\* some number of the set lies in [min(s,e), max(s,e)] of the pair
C15_InPair(covered, pair) ==
  /\ IntOk(pair[1]) /\ IntOk(pair[2])
  /\ \E n \in covered :
       /\ C15_Min(IntOf(pair[1]), IntOf(pair[2])) <= n
       /\ n <= C15_Max(IntOf(pair[1]), IntOf(pair[2]))
\* the integer-coerced singles of a spec
C15_Singles(sp) == {IntOf(sp.singles[i]) : i \in {k \in DOMAIN sp.singles : IntOk(sp.singles[k])}}

\* C15: a candidate is accepted by a numbers spec if and only if its number
\* set is non-empty, its inferred parity is not opposite to the parity of the
\* spec, the set holds an odd (even) number when the spec asks for odd
\* (even), some number of the set lies in some range pair, taken as
\* [min, max], when the spec has ranges, and the set meets the
\* integer-coerced singles when there are any; ranges and singles are both
\* required.
C15_RowPredicate ==
  pc = "judged" =>
    (out <=>
       /\ hnInfo.covered # {}
       /\ ~(hnInfo.parity = "even" /\ specs[1].parity = "odd")
       /\ ~(hnInfo.parity = "odd" /\ specs[1].parity = "even")
       /\ (specs[1].parity = "odd" => \E n \in hnInfo.covered : n % 2 = 1)
       /\ (specs[1].parity = "even" => \E n \in hnInfo.covered : n % 2 = 0)
       /\ (specs[1].ranges # <<>> =>
             \E i \in DOMAIN specs[1].ranges : C15_InPair(hnInfo.covered, specs[1].ranges[i]))
       /\ (C15_Singles(specs[1]) # {} => hnInfo.covered \cap C15_Singles(specs[1]) # {}))

\* a candidate inside the range of a spec and outside its singles is rejected
C15_Witness ==
  /\ pc = "judged"
  /\ hn = <<"2","2">>
  /\ specs[1].parity = "none"
  /\ specs[1].ranges = <<<<<<"1">>, <<"6","3">>>>>>
  /\ specs[1].singles = <<<<"2","1">>>>
  /\ out = FALSE

\* the street candidates as the rule describes them: the rows whose
\* normalized street equals sn, else, for a non-empty sn, the rows whose
\* normalized street contains sn as a literal substring
C14_Candidates(gdf, sn) ==
  IF \E i \in DOMAIN gdf : gdf[i].street_norm = sn
  THEN SelectSeq(gdf, LAMBDA r : r.street_norm = sn)
  ELSE IF sn # <<>> THEN SelectSeq(gdf, LAMBDA r : Contains(r.street_norm, sn))
  ELSE <<>>
\* a spec accepts a candidate row
C14_Accepts(sp, row) ==
  sp.kind = "integral" \/ (sp.kind = "numbers" /\ row_ok(row, sp))
\* no spec of the rule accepts a candidate of the rule
C14_RuleAcceptsNothing(gdf, rule) ==
  (rule.street # None /\ rule.street # <<>>) =>
    \A j \in DOMAIN rule.specs :
      \A k \in DOMAIN C14_Candidates(gdf, normalize_street(rule.street)) :
        ~C14_Accepts(rule.specs[j], C14_Candidates(gdf, normalize_street(rule.street))[k])

\* C14: when the block is found and its rules accept no inventory record (no
\* rules, only note specs, no street candidates, or every candidate
\* rejected), matching returns an empty collection and does not raise.
C14_EmptyNotError ==
  (/\ pc \in {"matched", "match_raised"}
   /\ \A i \in DOMAIN block.rules :
        C14_RuleAcceptsNothing(Precompute(inventory), block.rules[i])) =>
    (out.status = "ok" /\ out.rows = <<>>)

\* C16: the candidates of a rule are the records whose normalized street
\* equals the normalized street of the rule when there is one; otherwise,
\* for a non-empty normalized street, the records whose normalized street
\* contains it as a literal substring ('.' matches only itself); a rule
\* without candidates contributes nothing.
C16_StreetCandidates ==
  pc = "selected" =>
    /\ out.status = "ok"
    /\ out.rows = C14_Candidates(Precompute(inventory), nameNorm)

\* the (street, house-number) key of a row
C17_Key(r) == <<r.street_norm, r.addr_housenumber_int>>
\* the rows of all frames of matched_frames
C17_Accumulated == ConcatFrames(matchedPre)
\* row r is in a frame the spec made
C17_Framed(sp, r) ==
  \E f \in DOMAIN matchedPre :
    matchedPre[f].spec = sp /\ \E k \in DOMAIN matchedPre[f].rows : matchedPre[f].rows[k] = r
\* the candidates of rule i: the street selection of the rule
C17_CandidatesOf(i) ==
  IF block.rules[i].street = None THEN <<>>
  ELSE StreetRows(Precompute(inventory), normalize_street(block.rules[i].street))

\* C17: for every rule with street candidates an integral spec accepts every
\* candidate, those with an empty number set included, a note spec accepts
\* none, and the result before dedupe is the accumulation of the accepted
\* records over all specs of all rules: every accepted record is in a frame
\* of its spec, every framed record was accepted by the spec of its frame,
\* and the key of every accepted record is in the final output.
C17_Accumulation ==
  pc = "matched" =>
    /\ \A f \in DOMAIN matchedPre : matchedPre[f].spec.kind \in {"integral", "numbers"}
    /\ \A f \in DOMAIN matchedPre : \A k \in DOMAIN matchedPre[f].rows :
         C14_Accepts(matchedPre[f].spec, matchedPre[f].rows[k])
    /\ \A i \in DOMAIN block.rules : \A j \in DOMAIN block.rules[i].specs :
         \A k \in DOMAIN C17_CandidatesOf(i) :
           C14_Accepts(block.rules[i].specs[j], C17_CandidatesOf(i)[k]) =>
             C17_Framed(block.rules[i].specs[j], C17_CandidatesOf(i)[k])
    /\ \A k \in DOMAIN C17_Accumulated :
         \E o \in DOMAIN out.rows : C17_Key(out.rows[o]) = C17_Key(C17_Accumulated[k])
    /\ \A o \in DOMAIN out.rows :
         \E k \in DOMAIN C17_Accumulated : C17_Accumulated[k] = out.rows[o]

\* an integral rule on "STR. A" takes the record at house number "A", whose
\* number set is empty, and the record at "21"
C17_Witness ==
  /\ pc = "matched"
  /\ table = <<HeaderRow1, RuleRowOf(StreetStrAUpper, CellIntegral)>>
  /\ inventory = <<InvRecord(8), InvRecord(14)>>
  /\ Len(matchedPre) = 1
  /\ matchedPre[1].spec = [kind |-> "integral"]
  /\ Len(matchedPre[1].rows) = 2
  /\ matchedPre[1].rows[2].hn_set = {}
  /\ Len(out.rows) = 2

\* a lower-cased segment that is the placeholder "nr. -" and nothing else
C18_IsPlaceholder(low) ==
  StartsAt(low, 1, Txt_nr) /\ DashThenEnd(low, SkipSpaces(low, 4))
\* the non-blank segments of the cell that are not the placeholder
C18_Kept ==
  SelectSeq(C8_Segments(cell), LAMBDA p : ~C18_IsPlaceholder(ToLower(p)))

\* C18: parse skips a segment only when the segment is the placeholder
\* "nr. -"; every other non-blank segment, one that carries an integral
\* marker, a parity keyword or a range before a trailing "nr. -" included,
\* yields exactly one spec, so the specs are as many as the non-blank,
\* non-placeholder segments and come in segment order.
C18_OneSpecPerSegment ==
  pc = "parsed" =>
    /\ Len(specs) = Len(C18_Kept)
    /\ \A i \in DOMAIN specs :
         specs[i].kind = "integral" \/ specs[i].raw = C18_Kept[i]

C20_IsDomicile(r) == StartsAt(ToLower(Strip(r.Artera)), 1, Txt_domiciliul)
C20_HasStreet(r) == r.Artera # None /\ Strip(r.Artera) # <<>>
C20_StreetRows(domicile) ==
  PickRows(C12_District,
           {i \in DOMAIN C12_District :
              /\ C12_InBlock(i)
              /\ C20_HasStreet(C12_District[i])
              /\ C20_IsDomicile(C12_District[i]) = domicile}, 1)
C20_Streets(rs) == [i \in DOMAIN rs |-> Strip(rs[i].Artera)]
C20_StreetsOf(entries) == [i \in DOMAIN entries |-> entries[i].street]

\* C20: for every found block the rows with a non-empty street are
\* partitioned: each row whose street begins with "domiciliul" (any letter
\* case) is in notes and not in rules, every other such row is in rules
\* exactly once, rows without a street are in neither, and rules come in the
\* row order of the table.
C20_Partition ==
  (pc = "extracted" /\ \E i \in DOMAIN C12_District : C12_InBlock(i)) =>
    /\ block.status = "ok"
    /\ C20_StreetsOf(block.rules) = C20_Streets(C20_StreetRows(FALSE))
    /\ C20_StreetsOf(block.notes) = C20_Streets(C20_StreetRows(TRUE))

\* the positions, in the requested district, of the rows parse_sv takes as
\* the block
C21_Target == TargetRows(DistrictRows(table, query.judet), query.sv)
\* no row before i, nor i itself, carries a precinct number
C21_BeforeFirstNumber(i) == \A k \in 1..i : C12_District[k].NrSV = NaN
\* the rows that carry the requested precinct number themselves
C21_Explicit == {i \in DOMAIN C12_District : C12_District[i].NrSV = query.sv}
\* the requested number is written in one run only: no row carrying another
\* precinct number lies between two rows that carry the requested one
C21_OneRun ==
  \A a \in C21_Explicit, c \in C21_Explicit :
    \A b \in (a + 1)..(c - 1) : C12_District[b].NrSV \in {NaN, query.sv}
\* the block has no gap: a row between two rows of the block is in the block
C21_Contiguous ==
  \A a \in C21_Target, c \in C21_Target : \A b \in a..c : b \in C21_Target

\* C21 (as stated): a row of the district is in the block exactly when the
\* most recent precinct number at or above it is the requested one, rows
\* before the first number are in no block, and the rows of the block form a
\* single contiguous run for every table.
C21_SingleRun ==
  pc = "extracted" =>
    /\ \A i \in DOMAIN C12_District : i \in C21_Target <=> C12_InBlock(i)
    /\ \A i \in DOMAIN C12_District : C21_BeforeFirstNumber(i) => i \notin C21_Target
    /\ C21_Contiguous

\* C21 (amended): membership is by forward fill as stated and rows before
\* the first number are in no block; the block is one contiguous run when
\* the requested number is written in one run only, and it has a gap when a
\* row carrying another precinct number lies between two rows that carry the
\* requested number.
C21_ForwardFillBlock ==
  pc = "extracted" =>
    /\ \A i \in DOMAIN C12_District : i \in C21_Target <=> C12_InBlock(i)
    /\ \A i \in DOMAIN C12_District : C21_BeforeFirstNumber(i) => i \notin C21_Target
    /\ C21_OneRun <=> C21_Contiguous
    /\ block.status = "ValueError" <=> C21_Target = {}
\* a table whose rows carry 1, nothing, 2: the block of precinct 1 is the
\* first two rows
C21_Witness ==
  /\ pc = "extracted"
  /\ Len(table) = 3
  /\ C12_District = table
  /\ table[1].NrSV = 1 /\ table[2].NrSV = NaN /\ table[3].NrSV = 2
  /\ C21_Target = {1, 2}
  /\ block.status = "ok"
  /\ Len(block.rules) = 2

\* the row parse_sv takes the polling-place fields from
C22_Header == HeaderRow(DistrictRows(table, query.judet), C21_Target, query.sv)

\* C22: in every found block the header row is the first row of the block in
\* table order and carries the requested precinct number itself, so the
\* choice "if none is explicit, the first row of the block" is never taken;
\* the polling place of a returned block is read from that row.
C22_HeaderIsFirstRow ==
  (pc = "extracted" /\ C21_Target # {}) =>
    /\ C22_Header \in C21_Target
    /\ \A i \in C21_Target : C22_Header <= i
    /\ C12_District[C22_Header].NrSV = query.sv
    /\ C21_Explicit \cap C21_Target # {}
    /\ block.status = "ok" =>
         block.sediu_sv = safe_str(C12_District[C22_Header].SediuSV)
\* the number is written in the second and in the third row of the district:
\* the header is the second row, the first row of the block
C22_Witness ==
  /\ pc = "extracted"
  /\ Len(table) = 3
  /\ C12_District = table
  /\ table[1].NrSV = NaN /\ table[2].NrSV = 1 /\ table[3].NrSV = 1
  /\ C21_Target = {2, 3}
  /\ C22_Header = 2
  /\ block.status = "ok"
  /\ block.sediu_sv = <<"S","c","o","a","l","a","1">>

\* number n of the candidate meets the parity of the spec, its ranges, its
\* singles
C23_HasParity(n) ==
  /\ specs[1].parity = "odd" => n % 2 = 1
  /\ specs[1].parity = "even" => n % 2 = 0
C23_Between(n, a, b) == (a <= n /\ n <= b) \/ (b <= n /\ n <= a)
C23_InRange(n, rg) ==
  IntOk(rg[1]) /\ IntOk(rg[2]) /\ C23_Between(n, IntOf(rg[1]), IntOf(rg[2]))
C23_InRanges(n) ==
  specs[1].ranges # <<>> =>
    \E i \in DOMAIN specs[1].ranges : C23_InRange(n, specs[1].ranges[i])
C23_InSingles(n) ==
  SinglesInt(specs[1].singles) # {} => n \in SinglesInt(specs[1].singles)
\* one number of the candidate meets every constraint of the spec
C23_OneNumber ==
  \E n \in hnInfo.covered : C23_HasParity(n) /\ C23_InRanges(n) /\ C23_InSingles(n)

\* C23 (as stated): every record a numbers spec accepts has a single witness
\* number, one number of its set that has the parity of the spec, lies in one
\* of its ranges and is one of its singles.
C23_SingleWitness ==
  (pc = "judged" /\ out) => C23_OneNumber

\* C23 (amended): every record a numbers spec accepts has, for each
\* constraint of the spec, a number of its set that meets it; a record whose
\* house number is not a range has one number only, which meets them all; the
\* numbers of a range may differ from constraint to constraint.
C23_WitnessPerConstraint ==
  (pc = "judged" /\ out) =>
    /\ \E n \in hnInfo.covered : C23_HasParity(n)
    /\ \E n \in hnInfo.covered : C23_InRanges(n)
    /\ \E n \in hnInfo.covered : C23_InSingles(n)
    /\ ~hnInfo.isRange => C23_OneNumber
\* "63-72" against the even numbers of 1-63: accepted through 64 and 63
C23_Witness ==
  /\ pc = "judged"
  /\ hn = <<"6","3","-","7","2">>
  /\ hnInfo.isRange
  /\ specs[1].parity = "even"
  /\ specs[1].ranges = <<<<<<"1">>, <<"6","3">>>>>>
  /\ specs[1].singles = <<>>
  /\ out
  /\ ~C23_OneNumber

\* the domicile-exception rows of the requested block, in table order
C24_DomicileRows == C20_StreetRows(TRUE)

\* C24: every entry of notes carries the street of its own
\* domicile-exception row and the rule-cell text of that same row as raw,
\* never the rule text of an earlier row.
C24_NoteOfItsRow ==
  (pc = "extracted" /\ block.status = "ok") =>
    /\ Len(block.notes) = Len(C24_DomicileRows)
    /\ \A i \in DOMAIN block.notes :
         /\ block.notes[i].street = Strip(C24_DomicileRows[i].Artera)
         /\ block.notes[i].raw = safe_str(C24_DomicileRows[i].RuleText)
\* "Str. A" with "integral#", then the domicile row with "bloc A#": the note
\* of the domicile row has the text of the row above it
C24_EarlierRowText ==
  /\ pc = "extracted"
  /\ Len(table) = 2
  /\ table[1].NrSV = 1 /\ table[1].Artera = StreetStrA
  /\ table[2].NrSV = NaN /\ table[2].Artera = StreetDomiciliul
  /\ table[2].RuleText = <<"b","l","o","c"," ","A","#">>
  /\ block.status = "ok"
  /\ Len(block.notes) = 1
  /\ block.notes[1].street = StreetDomiciliul
  /\ block.notes[1].raw = CellIntegral

====
